---- MODULE Spec2Model ----
(***************************************************************************)
(* Model of grid_z0_mandel_matrix.py: the escape-time evaluator            *)
(* mandelbrot_variant and the loop that tiles its outputs into one canvas. *)
(*                                                                         *)
(* Numbers.  The script computes in binary floating point.  Every value    *)
(* the model reaches is a dyadic rational of a few bits (the linspace      *)
(* axes are multiples of 1/2 for the axis lengths the bounds allow, and an *)
(* entry is frozen as soon as its magnitude exceeds ESCAPE_RADIUS), so     *)
(* float64 arithmetic is exact on them and the model computes with exact   *)
(* rationals: a real is a pair <<numerator, denominator>> in lowest terms, *)
(* a complex number a record [re, im, den] in lowest terms.                *)
(***************************************************************************)
EXTENDS Integers, Sequences, FiniteSets, TLC

\* ------------------------------------------------------------------ bounds
\* The script fixes GRID_N = 1000, PANEL_SIZE = 5, MAX_ITER = 5; the model
\* draws them from 1..bound.
MaxGridN == 3
MaxPanelSize == 3
MaxMaxIter == 3
\* Seeds of the evaluator-only specification: real and imaginary part in
\* -SeedMax..SeedMax.
SeedMax == 1

\* --------------------------------------------------------------- constants
ESCAPE_RADIUS == 2
Z0_RADIUS == 3
RE_MIN == <<-2, 1>>
RE_MAX == <<1, 1>>
IM_MIN == <<-3, 2>>
IM_MAX == <<3, 2>>

VARIABLES
    GRID_N, PANEL_SIZE, MAX_ITER,   \* configuration
    c_grid, z0_values,              \* module-level arrays built at import
    canvas, idx,                    \* the composition loop
    pc,                             \* position of the script
    z0, max_iter, z, img, mask, i,  \* the frame of mandelbrot_variant
    writes,                         \* ghost: number of writes per canvas element
    done,                           \* ghost: lattice indices whose tile is written
    prev                            \* ghost: the array a previous identical call returned

vars == <<GRID_N, PANEL_SIZE, MAX_ITER, c_grid, z0_values, canvas, idx, pc,
          z0, max_iter, z, img, mask, i, writes, done, prev>>

\* -------------------------------------------------------------- arithmetic
Abs(a) == IF a < 0 THEN -a ELSE a

RECURSIVE GCD(_, _)
GCD(a, b) == IF b = 0 THEN a ELSE GCD(b, a % b)

\* A rational in lowest terms, denominator positive.
Rat(n, d) ==
    LET g == GCD(Abs(n), Abs(d))
        s == IF d < 0 THEN -1 ELSE 1
    IN <<(s * n) \div g, (s * d) \div g>>

RatAdd(a, b) == Rat(a[1] * b[2] + b[1] * a[2], a[2] * b[2])
RatSub(a, b) == Rat(a[1] * b[2] - b[1] * a[2], a[2] * b[2])
RatMulInt(a, k) == Rat(a[1] * k, a[2])
RatDivInt(a, k) == Rat(a[1], a[2] * k)

\* A complex number in lowest terms.
Cplx(re, im, den) ==
    LET g == GCD(GCD(Abs(re), Abs(im)), den)
    IN [re |-> re \div g, im |-> im \div g, den |-> den \div g]

\* x + 1j*y for two reals.
CplxOf(x, y) == Cplx(x[1] * y[2], y[1] * x[2], x[2] * y[2])

CZero == Cplx(0, 0, 1)

\* v**2
CSq(v) == Cplx(v.re * v.re - v.im * v.im, 2 * v.re * v.im, v.den * v.den)

CAdd(a, b) ==
    Cplx(a.re * b.den + b.re * a.den, a.im * b.den + b.im * a.den, a.den * b.den)

\* np.abs(v) > r
AbsGt(v, r) == v.re * v.re + v.im * v.im > r * r * v.den * v.den

\* np.linspace(start, stop, num), indexed from 0.
Linspace(start, stop, num) ==
    [k \in 0..(num - 1) |->
        IF num = 1 THEN start
        ELSE RatAdd(RatMulInt(RatDivInt(RatSub(stop, start), num - 1), k), start)]

\* ------------------------------------------------------- module-level data
Shape(p) == (0..(p - 1)) \X (0..(p - 1))

\* c_grid = re[np.newaxis, :] + 1j * im[:, np.newaxis]
CGrid(p) ==
    LET re == Linspace(RE_MIN, RE_MAX, p)
        im == Linspace(IM_MIN, IM_MAX, p)
    IN [c \in Shape(p) |-> CplxOf(re[c[2]], im[c[1]])]

\* z0_values = [x + 1j*y for y in z0_imag for x in z0_real]
Z0Values(n) ==
    LET z0_real == Linspace(<<-Z0_RADIUS, 1>>, <<Z0_RADIUS, 1>>, n)
        z0_imag == Linspace(<<-Z0_RADIUS, 1>>, <<Z0_RADIUS, 1>>, n)
    IN [k \in 0..(n * n - 1) |-> CplxOf(z0_real[k % n], z0_imag[k \div n])]

\* canvas = np.zeros((canvas_size, canvas_size))
CanvasZeros(n, p) == [c \in Shape(n * p) |-> 0]

\* ------------------------------------------------------ mandelbrot_variant
\* np.full_like(c_grid, z0), np.zeros_like(z), np.ones(z.shape, dtype=bool)
FullLike(grid, v) == [c \in DOMAIN grid |-> v]
ZerosLike(grid) == [c \in DOMAIN grid |-> 0]

\* Mutant: the mask of the previous call is reused instead of a fresh one.
StaleMask(grid) == mask

OnesMask(grid) == [c \in DOMAIN grid |-> TRUE]

MaskAny(mm) == \E c \in DOMAIN mm : mm[c]

\* Mutant: z = z**2 + c_grid, escaped entries updated too.
UpdateZUnmasked(zz, mm, grid) == [c \in DOMAIN zz |-> CAdd(CSq(zz[c]), grid[c])]

\* z[mask] = z[mask]**2 + c_grid[mask]
UpdateZ(zz, mm, grid) ==
    [c \in DOMAIN zz |-> IF mm[c] THEN CAdd(CSq(zz[c]), grid[c]) ELSE zz[c]]

\* Mutant: np.abs(z) >= ESCAPE_RADIUS.
EscapedAtRadius(zz) ==
    [c \in DOMAIN zz |->
        zz[c].re * zz[c].re + zz[c].im * zz[c].im
            >= ESCAPE_RADIUS * ESCAPE_RADIUS * zz[c].den * zz[c].den]

\* escaped = np.abs(z) > ESCAPE_RADIUS
Escaped(zz) == [c \in DOMAIN zz |-> AbsGt(zz[c], ESCAPE_RADIUS)]

\* Mutant: img[escaped] = i, entries that escaped earlier overwritten.
RecordEscapeUnmasked(im, mm, esc, k) == [c \in DOMAIN im |-> IF esc[c] THEN k ELSE im[c]]

\* img[mask & escaped] = i
RecordEscape(im, mm, esc, k) ==
    [c \in DOMAIN im |-> IF mm[c] /\ esc[c] THEN k ELSE im[c]]

\* mask &= ~escaped
Deactivate(mm, esc) == [c \in DOMAIN mm |-> mm[c] /\ ~esc[c]]

\* Mutant: break as soon as some entry has escaped.
BreakOnFirstEscape(mm) == \E c \in DOMAIN mm : ~mm[c]

\* if not mask.any(): break
BreakNow(mm) == ~MaskAny(mm)

\* Mutant: img[mask] = max_iter + 1.
PostLoopOffByOne(im, mm, m) == [c \in DOMAIN im |-> IF mm[c] THEN m + 1 ELSE im[c]]

\* img[mask] = max_iter
PostLoop(im, mm, m) == [c \in DOMAIN im |-> IF mm[c] THEN m ELSE im[c]]

\* One pass of the loop body, lines 70-73.
LoopBody(f, k) ==
    LET z1 == UpdateZ(f.z, f.mask, c_grid)
        esc == Escaped(z1)
    IN [z |-> z1,
        img |-> RecordEscape(f.img, f.mask, esc, k),
        mask |-> Deactivate(f.mask, esc)]

\* The frame at function entry, lines 65-67.
Entry(seed) ==
    [z |-> FullLike(c_grid, seed), img |-> ZerosLike(c_grid), mask |-> OnesMask(c_grid)]

\* for i in range(max_iter): ...; break when no entry is active.
RECURSIVE Loop(_, _, _)
Loop(f, k, m) ==
    IF k >= m THEN f
    ELSE LET g == LoopBody(f, k)
         IN IF BreakNow(g.mask) THEN g ELSE Loop(g, k + 1, m)

\* The array mandelbrot_variant(z0, max_iter) returns.
mandelbrot_variant(seed, m) ==
    LET f == Loop(Entry(seed), 0, m) IN PostLoop(f.img, f.mask, m)

\* ------------------------------------------------------- composition loop
\* Mutants: the two index computations exchanged.
RowAsCol(k) == k % GRID_N
ColAsRow(k) == k \div GRID_N

\* row = idx // GRID_N ; col = idx % GRID_N
Row(k) == k \div GRID_N
Col(k) == k % GRID_N

\* c lies in the slice
\* [row*PANEL_SIZE:(row+1)*PANEL_SIZE, col*PANEL_SIZE:(col+1)*PANEL_SIZE].
InTile(c, k) ==
    /\ Row(k) * PANEL_SIZE <= c[1] /\ c[1] < (Row(k) + 1) * PANEL_SIZE
    /\ Col(k) * PANEL_SIZE <= c[2] /\ c[2] < (Col(k) + 1) * PANEL_SIZE

\* The canvas elements the slice selects.
TileCells(k) == {c \in DOMAIN canvas : InTile(c, k)}

\* Mutant: the panel is copied transposed.
WriteTileTransposed(cv, k, panel) ==
    [c \in DOMAIN cv |->
        IF InTile(c, k)
        THEN panel[<<c[2] - Col(k) * PANEL_SIZE, c[1] - Row(k) * PANEL_SIZE>>]
        ELSE cv[c]]

\* canvas[row*P:(row+1)*P, col*P:(col+1)*P] = mandel_img
WriteTile(cv, k, panel) ==
    [c \in DOMAIN cv |->
        IF InTile(c, k)
        THEN panel[<<c[1] - Row(k) * PANEL_SIZE, c[2] - Col(k) * PANEL_SIZE>>]
        ELSE cv[c]]

CountWrite(w, k) == [c \in DOMAIN w |-> IF InTile(c, k) THEN w[c] + 1 ELSE w[c]]

\* ------------------------------------------------------------------- Init
NoPrev == <<>>

\* The state once the module-level statements before the loop have run.
Setup(n, p, m, start) ==
    /\ GRID_N = n /\ PANEL_SIZE = p /\ MAX_ITER = m
    /\ c_grid = CGrid(p)
    /\ z0_values = Z0Values(n)
    /\ canvas = CanvasZeros(n, p)
    /\ writes = CanvasZeros(n, p)
    /\ idx = 0
    /\ done = {}
    /\ pc = start
    /\ z0 = CZero /\ max_iter = m /\ i = 0
    /\ z = [c \in Shape(p) |-> CZero]
    /\ img = [c \in Shape(p) |-> 0]
    /\ mask = [c \in Shape(p) |-> TRUE]
    /\ prev = NoPrev

Init ==
    \E n \in 1..MaxGridN, p \in 1..MaxPanelSize, m \in 1..MaxMaxIter :
        Setup(n, p, m, "loop")

\* ---------------------------------------------------------------- actions
config == <<GRID_N, PANEL_SIZE, MAX_ITER>>
globals == <<c_grid, z0_values, canvas, writes, idx, done>>

\* Function entry (lines 65-67) with the arguments seed and m.
EnterCall(seed, m) ==
    /\ z0' = seed
    /\ max_iter' = m
    /\ z' = Entry(seed).z
    /\ img' = Entry(seed).img
    /\ mask' = Entry(seed).mask
    /\ i' = 0
    /\ pc' = "iter"

\* The loop takes the next seed and calls mandelbrot_variant(z0).
Call ==
    /\ pc = "loop"
    /\ idx < GRID_N * GRID_N
    /\ EnterCall(z0_values[idx], MAX_ITER)
    /\ UNCHANGED <<config, globals, prev>>

\* One iteration of the evaluator's loop, the break included.
Iterate ==
    /\ pc = "iter"
    /\ i < max_iter
    /\ LET g == LoopBody([z |-> z, img |-> img, mask |-> mask], i)
       IN /\ z' = g.z
          /\ img' = g.img
          /\ mask' = g.mask
          /\ IF BreakNow(g.mask)
             THEN pc' = "post" /\ i' = i
             ELSE pc' = "iter" /\ i' = i + 1
    /\ UNCHANGED <<config, globals, z0, max_iter, prev>>

\* range(max_iter) is exhausted.
LoopExit ==
    /\ pc = "iter"
    /\ i >= max_iter
    /\ pc' = "post"
    /\ UNCHANGED <<config, globals, z0, max_iter, z, img, mask, i, prev>>

\* img[mask] = max_iter ; return img
Return ==
    /\ pc = "post"
    /\ img' = PostLoop(img, mask, max_iter)
    /\ pc' = "ret"
    /\ UNCHANGED <<config, globals, z0, max_iter, z, mask, i, prev>>

\* The returned array is copied into its tile; the loop goes on.
StoreTile ==
    /\ pc = "ret"
    /\ canvas' = WriteTile(canvas, idx, img)
    /\ writes' = CountWrite(writes, idx)
    /\ done' = done \cup {idx}
    /\ idx' = idx + 1
    /\ pc' = "loop"
    /\ UNCHANGED <<config, c_grid, z0_values, z0, max_iter, z, img, mask, i, prev>>

\* The loop is over: the canvas goes to matplotlib.
Render ==
    /\ pc = "loop"
    /\ idx >= GRID_N * GRID_N
    /\ pc' = "done"
    /\ UNCHANGED <<config, globals, z0, max_iter, z, img, mask, i, prev>>

Next == Call \/ Iterate \/ LoopExit \/ Return \/ StoreTile \/ Render

Spec == Init /\ [][Next]_vars

\* ------------------------------------------- any configuration constants
\* The same script with the constants of lines 22-24 set to any value from 0.
InitConfig ==
    \E n \in 0..MaxGridN, p \in 0..MaxPanelSize, m \in 0..MaxMaxIter :
        Setup(n, p, m, "loop")

SpecConfig == InitConfig /\ [][Next]_vars

\* ------------------------------------------------- the evaluator on its own
\* mandelbrot_variant called with any seed and any max_iter >= 1, twice in a
\* row with the same arguments.
Seeds == {Cplx(a, b, 1) : a \in (-SeedMax)..SeedMax, b \in (-SeedMax)..SeedMax}

InitEval == \E p \in 1..MaxPanelSize : Setup(1, p, MaxMaxIter, "idle")

CallAny ==
    /\ pc = "idle"
    /\ \E seed \in Seeds, m \in 1..MaxMaxIter : EnterCall(seed, m)
    /\ UNCHANGED <<config, globals, prev>>

CallAgain ==
    /\ pc = "ret"
    /\ prev = NoPrev
    /\ prev' = <<img>>
    /\ EnterCall(z0, max_iter)
    /\ UNCHANGED <<config, globals>>

\* Both returned arrays are dropped; the frame is gone.
Discard ==
    /\ pc = "ret"
    /\ prev # NoPrev
    /\ prev' = NoPrev
    /\ pc' = "idle"
    /\ z0' = CZero /\ max_iter' = MAX_ITER /\ i' = 0
    /\ z' = [c \in DOMAIN c_grid |-> CZero]
    /\ img' = [c \in DOMAIN c_grid |-> 0]
    /\ mask' = [c \in DOMAIN c_grid |-> TRUE]
    /\ UNCHANGED <<config, globals>>

NextEval == CallAny \/ Iterate \/ LoopExit \/ Return \/ CallAgain \/ Discard

SpecEval == InitEval /\ [][NextEval]_vars

\* --------------------------------------------- the tiles in any order
\* The loop body of lines 88-94 run for the lattice indices in any order,
\* one whole tile at a time.  PANEL_SIZE is held at ParPanelSize: the order
\* of the tiles is what this specification varies.
ParPanelSize == 2

InitPar == \E n \in 1..MaxGridN : Setup(n, ParPanelSize, MaxMaxIter, "par")

WorkerTile ==
    /\ pc = "par"
    /\ \E k \in (0..(GRID_N * GRID_N - 1)) \ done :
          /\ canvas' = WriteTile(canvas, k, mandelbrot_variant(z0_values[k], MAX_ITER))
          /\ writes' = CountWrite(writes, k)
          /\ done' = done \cup {k}
    /\ UNCHANGED <<config, c_grid, z0_values, idx, pc, z0, max_iter, z, img, mask, i, prev>>

Join ==
    /\ pc = "par"
    /\ done = 0..(GRID_N * GRID_N - 1)
    /\ pc' = "done"
    /\ UNCHANGED <<config, globals, z0, max_iter, z, img, mask, i, prev>>

NextPar == WorkerTile \/ Join

SpecPar == InitPar /\ [][NextPar]_vars

\* ======================================================== reference loops
\* The per-cell early-exit loop: iterate v <- v^2 + p from v = seed until the
\* magnitude first exceeds ESCAPE_RADIUS or the budget m is spent.
RECURSIVE ScalarLoop(_, _, _, _)
ScalarLoop(v, p, k, m) ==
    IF k >= m THEN m
    ELSE LET w == CAdd(CSq(v), p)
         IN IF AbsGt(w, ESCAPE_RADIUS) THEN k ELSE ScalarLoop(w, p, k + 1, m)

\* The magnitude is <= ESCAPE_RADIUS after each of the next k updates.
RECURSIVE StaysBounded(_, _, _)
StaysBounded(v, p, k) ==
    \/ k = 0
    \/ LET w == CAdd(CSq(v), p)
       IN ~AbsGt(w, ESCAPE_RADIUS) /\ StaysBounded(w, p, k - 1)

\* The evaluator's loop run for all m iterations, without the break.
RECURSIVE LoopNoBreak(_, _, _)
LoopNoBreak(f, k, m) == IF k >= m THEN f ELSE LoopNoBreak(LoopBody(f, k), k + 1, m)

NoBreakResult(seed, m) ==
    LET f == LoopNoBreak(Entry(seed), 0, m) IN PostLoop(f.img, f.mask, m)

\* The step is one of a running call: an iteration, the loop's end, the
\* post-loop assignment.
InCall == pc \in {"iter", "post"}

\* ================================================================= claims

\* C1: when mandelbrot_variant returns (any seed, any grid, max_iter >= 1),
\* the array has the shape of c_grid and every entry is an integer in
\* 0..max_iter.
C1_ShapeAndRange ==
    pc = "ret" =>
        /\ DOMAIN img = DOMAIN c_grid
        /\ \A c \in DOMAIN img : img[c] \in 0..max_iter

\* A call returned an array holding both the sentinel and an escape index
\* strictly between 0 and max_iter.
C1_Witness ==
    /\ pc = "ret"
    /\ \E c \in DOMAIN img : img[c] = max_iter
    /\ \E c \in DOMAIN img : img[c] > 0 /\ img[c] < max_iter

\* C2: the masked array loop returns, cell by cell, what the scalar per-cell
\* loop returns: the least index i at which the working value, after i+1
\* updates from the seed, has magnitude > ESCAPE_RADIUS.
C2_MatchesScalarLoop ==
    pc = "ret" =>
        \A c \in DOMAIN img : img[c] = ScalarLoop(z0, c_grid[c], 0, max_iter)

\* A call returned with cells that escaped at different iterations, one of
\* them after the first.
C2_Witness ==
    /\ pc = "ret"
    /\ \E c, d \in DOMAIN img : img[c] < img[d] /\ img[d] < max_iter

\* C3: a cell gets max_iter exactly when its working value has magnitude
\* <= ESCAPE_RADIUS after each of the max_iter updates.
C3_SentinelIffNeverEscapes ==
    pc = "ret" =>
        \A c \in DOMAIN img :
            (img[c] = max_iter) <=> StaysBounded(z0, c_grid[c], max_iter)

\* A call returned with a cell that never escaped beside one that escaped in
\* the last iteration of the budget.
C3_Witness ==
    /\ pc = "ret"
    /\ max_iter >= 2
    /\ \E c, d \in DOMAIN img : img[c] = max_iter /\ img[d] = max_iter - 1

\* C4: within a call, an inactive cell stays inactive, keeps its output and
\* its working value; the output a cell gets when it becomes inactive is the
\* index of that iteration.
C4_MonotonicEscape ==
    [][InCall =>
        \A c \in DOMAIN mask :
            /\ ~mask[c] => (~mask'[c] /\ img'[c] = img[c] /\ z'[c] = z[c])
            /\ (mask[c] /\ ~mask'[c]) => img'[c] = i]_vars

\* The loop is about to run an iteration with a cell that escaped at least
\* two iterations ago while other cells are still active.
C4_Witness ==
    /\ pc = "iter"
    /\ i < max_iter
    /\ MaskAny(mask)
    /\ \E c \in DOMAIN mask : ~mask[c] /\ img[c] + 2 <= i

\* C5: when the loop is over, every canvas element has been written exactly
\* once and the block [row*P:(row+1)*P, col*P:(col+1)*P] is the evaluator's
\* output for z0_values[row*N + col].
C5_TilesComplete ==
    pc = "done" =>
        /\ DOMAIN canvas = Shape(GRID_N * PANEL_SIZE)
        /\ \A c \in DOMAIN canvas : writes[c] = 1
        /\ \A row \in 0..(GRID_N - 1), col \in 0..(GRID_N - 1) :
              LET out == mandelbrot_variant(z0_values[row * GRID_N + col], MAX_ITER)
              IN \A r \in 0..(PANEL_SIZE - 1), q \in 0..(PANEL_SIZE - 1) :
                    canvas[<<row * PANEL_SIZE + r, col * PANEL_SIZE + q>>] = out[<<r, q>>]

\* The loop is over for a lattice of several tiles, and the canvas holds
\* several different values.
C5_Witness ==
    /\ pc = "done"
    /\ GRID_N >= 2 /\ PANEL_SIZE >= 2
    /\ \E c, d \in DOMAIN canvas : canvas[c] > 0 /\ canvas[d] > canvas[c]

\* The canvas after the loop of lines 87-94 has run from index k on, in order.
RECURSIVE InOrder(_, _)
InOrder(cv, k) ==
    IF k >= GRID_N * GRID_N THEN cv
    ELSE InOrder(WriteTile(cv, k, mandelbrot_variant(z0_values[k], MAX_ITER)), k + 1)

\* C6: the rectangles of two distinct lattice indices do not overlap, and
\* with the indices processed in any order the final canvas is the one the
\* in-order loop produces.
C6_DisjointOrderFree ==
    /\ done = {} =>
          \A a, b \in 0..(GRID_N * GRID_N - 1) :
              a # b => TileCells(a) \cap TileCells(b) = {}
    /\ \A c \in DOMAIN writes : writes[c] <= 1
    /\ pc = "done" => canvas = InOrder(CanvasZeros(GRID_N, PANEL_SIZE), 0)

\* Tiles are being written out of lattice order: a tile holding a nonzero
\* value is written while the tile of a smaller index is not.
C6_Witness ==
    /\ pc = "par"
    /\ \E a, b \in 0..(GRID_N * GRID_N - 1) :
          /\ a < b /\ a \notin done /\ b \in done
          /\ \E c \in TileCells(b) : canvas[c] > 0

\* C7: a configuration with a zero lattice side, panel size or max_iter is
\* rejected before anything is computed: no evaluator call, no canvas.
C7_InvalidConfigRejected ==
    (GRID_N < 1 \/ PANEL_SIZE < 1 \/ MAX_ITER < 1) =>
        pc \notin {"iter", "post", "ret", "done"}

\* C8: a second call with the same seed and max_iter returns the same array,
\* and no step of a call changes c_grid, z0_values or the canvas.
C8_DeterministicNoSideEffect ==
    /\ []((pc = "ret" /\ prev # NoPrev) => img = prev[1])
    /\ [][pc' \in {"iter", "post", "ret"} =>
            UNCHANGED <<c_grid, z0_values, canvas>>]_vars

\* The second of two identical calls returned, with an escape index strictly
\* between 0 and max_iter in the array.
C8_Witness ==
    /\ pc = "ret"
    /\ prev # NoPrev
    /\ \E c \in DOMAIN img : img[c] > 0 /\ img[c] < max_iter

\* C9: the array returned with the early break is the array the same loop
\* returns when run for all max_iter iterations.
C9_BreakPreservesResult ==
    pc = "ret" => img = NoBreakResult(z0, max_iter)

\* A call returned after the loop broke before its last iteration, on a grid
\* of several cells that escaped at different iterations.
C9_Witness ==
    /\ pc = "ret"
    /\ i + 1 < max_iter
    /\ \E c, d \in DOMAIN img : img[c] < img[d]

\* The tiles of the indices below idx are filled, the others are zero.
PrefixFilled ==
    \A k \in 0..(GRID_N * GRID_N - 1) :
        \A r \in 0..(PANEL_SIZE - 1), q \in 0..(PANEL_SIZE - 1) :
            canvas[<<(k \div GRID_N) * PANEL_SIZE + r, (k % GRID_N) * PANEL_SIZE + q>>]
                = IF k < idx
                  THEN mandelbrot_variant(z0_values[k], MAX_ITER)[<<r, q>>]
                  ELSE 0

\* A step changes canvas elements of the tile of idx only.
OnlyCurrentTile ==
    \A c \in DOMAIN canvas :
        canvas'[c] # canvas[c] =>
            /\ c[1] \div PANEL_SIZE = idx \div GRID_N
            /\ c[2] \div PANEL_SIZE = idx % GRID_N

\* C10: with k seeds processed, the tiles of indices 0..k-1 hold their
\* evaluator outputs and every other canvas element is 0; a step changes
\* canvas elements of the current index's tile only.
C10_CanvasPrefix == [](PrefixFilled) /\ [][OnlyCurrentTile]_vars

\* Part of the lattice is processed: a tile written earlier holds a nonzero
\* value and a later seed's call is running.
C10_Witness ==
    /\ pc = "iter"
    /\ idx > 0 /\ idx + 1 < GRID_N * GRID_N
    /\ \E c \in DOMAIN canvas : canvas[c] > 0

====
